---- MODULE Spec2Model ----
(***************************************************************************)
(* A model of general_reduction/reduction_tree/tree_reduction_MPI.py:      *)
(* reduction_tree (seed of Pi, leaf distance matrix, backward pass over    *)
(* the stages, forward rebuild), _loop_subtree_n (one subtree problem per  *)
(* node n of G against every same-stage node m of H) and division_tasks.   *)
(*                                                                         *)
(* Numbers are exact rationals <<numerator, denominator>> in lowest terms  *)
(* with a positive denominator; floating-point rounding is not modelled.   *)
(***************************************************************************)
EXTENDS Integers, Sequences, FiniteSets, TLC

\* ------------------------------------------------------------------ bounds
\* Largest number of leaves of an input tree.
MaxLeaves == 3
\* The barycenter returned by a solver has entries k/Grid.
Grid == 2
\* Largest task count and worker count handed to division_tasks.
MaxTasks == 12
MaxPool == 12
\* The horizons (maximum stage) of the input trees.
Horizons == 0 .. 2

\* ------------------------------------------------------- exact arithmetic
Abs(x) == IF x < 0 THEN -x ELSE x

RECURSIVE Gcd(_, _)
Gcd(a, b) == IF b = 0 THEN a ELSE Gcd(b, a % b)

\* n/d in lowest terms, d > 0.
Rat(n, d) == LET g == Gcd(Abs(n), d) IN <<n \div g, d \div g>>

Zero == <<0, 1>>
One == <<1, 1>>

RAdd(a, b) ==
  LET g == Gcd(a[2], b[2])
      l == (a[2] \div g) * b[2]
  IN Rat(a[1] * (l \div a[2]) + b[1] * (l \div b[2]), l)

RSub(a, b) == RAdd(a, <<-b[1], b[2]>>)

RMul(a, b) ==
  LET g1 == Gcd(Abs(a[1]), b[2])
      g2 == Gcd(Abs(b[1]), a[2])
  IN Rat((a[1] \div g1) * (b[1] \div g2), (a[2] \div g2) * (b[2] \div g1))

\* a / b for b > 0.
RDiv(a, b) == RMul(a, <<b[2], b[1]>>)

RLt(a, b) == a[1] * b[2] < b[1] * a[2]

RLe(a, b) == a[1] * b[2] <= b[1] * a[2]

RAbs(a) == <<Abs(a[1]), a[2]>>

RECURSIVE SeqSum(_)
SeqSum(s) == IF s = <<>> THEN Zero ELSE RAdd(s[1], SeqSum(Tail(s)))

\* np.sum of a 2-d array (a sequence of rows).
RECURSIVE MatSum(_)
MatSum(M) == IF M = <<>> THEN Zero ELSE RAdd(SeqSum(M[1]), MatSum(Tail(M)))

\* The members of a set of integers in ascending order.
RECURSIVE Asc(_)
Asc(S) ==
  IF S = {} THEN <<>>
  ELSE LET x == CHOOSE y \in S : \A z \in S : y <= z IN <<x>> \o Asc(S \ {x})

Rev(s) == [k \in 1 .. Len(s) |-> s[Len(s) + 1 - k]]

Range(s) == {s[k] : k \in 1 .. Len(s)}

\* [x for x in s if x in S], in the order of s.
RECURSIVE Filter(_, _)
Filter(s, S) ==
  IF s = <<>> THEN <<>>
  ELSE (IF s[1] \in S THEN <<s[1]>> ELSE <<>>) \o Filter(Tail(s), S)

\* ---------------------------------------------------------- division_tasks
\* np.array([i for i in range(lo, hi)])
Arange(lo, hi) == [k \in 1 .. (IF hi > lo THEN hi - lo ELSE 0) |-> lo + k - 1]

\* np.split(ary, sections): equal division, or ValueError.
NpSplit(ary, sections) ==
  IF Len(ary) % sections # 0
  THEN [raised |-> TRUE, parts |-> <<>>]
  ELSE LET sz == Len(ary) \div sections
       IN [raised |-> FALSE,
           parts |-> [g \in 1 .. sections |-> SubSeq(ary, (g - 1) * sz + 1, g * sz)]]

\* A split point that leaves the extra tasks out.
SplitPointNoExtra(div, congru) == div * congru

\* The index where the groups holding an extra task end: div * congru + congru.
SplitPoint(div, congru) == div * congru + congru

\* A second split into as many groups as there are workers.
SecondSectionsAll(pool_size, congru) == pool_size

\* The number of groups without an extra task: pool_size - congru.
SecondSections(pool_size, congru) == pool_size - congru

division_tasks(nb_tasks, pool_size) ==
  IF nb_tasks % pool_size = 0
  THEN NpSplit(Arange(0, nb_tasks), pool_size)
  ELSE LET div == nb_tasks \div pool_size
           congru == nb_tasks % pool_size
           rearranged1 == NpSplit(Arange(0, SplitPoint(div, congru)), congru)
           rearranged2 == NpSplit(Arange(SplitPoint(div, congru), nb_tasks),
                                  SecondSections(pool_size, congru))
       IN [raised |-> rearranged1.raised \/ rearranged2.raised,
           parts |-> rearranged1.parts \o rearranged2.parts]

\* ------------------------------------------------------------ input trees
\* A tree is level-uniform: every node of stage t - 1 has bv[t] children, so
\* every leaf is at stage Len(bv).  Nodes are numbered 0, 1, ... level by
\* level, the root being node 0 (reduction_tree fixes Pi[0, 0]).
RECURSIVE LevelSize(_, _)
LevelSize(bv, t) == IF t = 0 THEN 1 ELSE LevelSize(bv, t - 1) * bv[t]

RECURSIVE Offset(_, _)
Offset(bv, t) == IF t = 0 THEN 0 ELSE Offset(bv, t - 1) + LevelSize(bv, t - 1)

Shapes ==
  {bv \in UNION {[1 .. T0 -> 1 .. MaxLeaves] : T0 \in Horizons} :
     LevelSize(bv, Len(bv)) <= MaxLeaves}

\* Successor orders (the order in which the edges of a node were inserted).
Orders == {"asc", "desc"}

\* Conditional probabilities of H: all children alike, or one child taking
\* nearly all the mass and every other child 1/2000.
WeightPatterns == {"uniform", "skewed"}

EdgeWeight(pattern, b, c) ==
  IF pattern = "uniform" \/ b = 1 THEN Rat(1, b)
  ELSE IF c = 1 THEN Rat(2000 - (b - 1), 2000) ELSE Rat(1, 2000)

\* The graph with its node attribute 'stage', its edge attribute 'weight'
\* (indexed by the child), successors, predecessors (-1: none) and the value
\* find_process_data reads at each node.
MakeTree(bv, order, pattern) ==
  LET T0 == Len(bv)
      N0 == Offset(bv, T0 + 1)
      stg(v) == CHOOSE t \in 0 .. T0 : Offset(bv, t) <= v /\ v < Offset(bv, t + 1)
      rank(v) == v - Offset(bv, stg(v))
      kids(v) ==
        IF stg(v) = T0 THEN <<>>
        ELSE LET b == bv[stg(v) + 1]
                 first == Offset(bv, stg(v) + 1) + rank(v) * b
             IN [c \in 1 .. b |-> IF order = "asc" THEN first + c - 1 ELSE first + b - c]
      par(v) == IF v = 0 THEN -1 ELSE Offset(bv, stg(v) - 1) + rank(v) \div bv[stg(v)]
  IN [nodes |-> Arange(0, N0),
      stage |-> [v \in 0 .. N0 - 1 |-> stg(v)],
      succ |-> [v \in 0 .. N0 - 1 |-> kids(v)],
      pred |-> [v \in 0 .. N0 - 1 |-> par(v)],
      weight |-> [v \in 1 .. N0 - 1 |->
                    EdgeWeight(pattern, bv[stg(v)], (rank(v) % bv[stg(v)]) + 1)],
      value |-> [v \in 0 .. N0 - 1 |-> rank(v)]]

\* [i for i in G.nodes if G.nodes[i]['stage'] == s]
NodesAtStage(tree, s) == Filter(tree.nodes, {v \in Range(tree.nodes) : tree.stage[v] = s})

\* np.max([G.nodes[i]['stage'] for i in G.nodes])
MaxStage(tree) ==
  CHOOSE s \in {tree.stage[v] : v \in Range(tree.nodes)} :
    \A v \in Range(tree.nodes) : tree.stage[v] <= s

\* The root-to-node chain of v, root first.
RECURSIVE Chain(_, _)
Chain(tree, v) == IF tree.pred[v] = -1 THEN <<v>> ELSE Chain(tree, tree.pred[v]) \o <<v>>

\* find_process_data: per leaf (in node order) the root-to-leaf chain and the
\* vector of the values along it, and the horizon of the tree.
find_process_data(tree) ==
  LET leaves == Filter(tree.nodes, {v \in Range(tree.nodes) : tree.succ[v] = <<>>})
  IN [a |-> [k \in 1 .. Len(leaves) |-> Chain(tree, leaves[k])],
      w |-> [k \in 1 .. Len(leaves) |->
               [x \in 1 .. Len(Chain(tree, leaves[k])) |-> tree.value[Chain(tree, leaves[k])[x]]]],
      T |-> MaxStage(tree)]

\* Whether numpy broadcasts two 1-d arrays of these lengths together.
Broadcastable(la, lb) == la = lb \/ la = 1 \/ lb = 1

\* np.sum((wi - wj) ** 2) for 1-d arrays that broadcast together.
SquaredDistance(wi, wj) ==
  LET n == IF Len(wi) = 1 THEN Len(wj) ELSE Len(wi)
      at(w, k) == IF Len(w) = 1 THEN w[1] ELSE w[k]
  IN SeqSum([k \in 1 .. n |-> <<(at(wi, k) - at(wj, k)) * (at(wi, k) - at(wj, k)), 1>>])

\* ------------------------------------------------------ plans and solvers
\* epsilon = 10 ** -3
epsilon == <<1, 1000>>

\* x.clip(epsilon) on one entry.
\* An entry left as the solver returned it.
ClipNone(x) == x

Clip(x) == IF RLt(x, epsilon) THEN epsilon ELSE x

\* An entry left undivided.
NormaliseNone(x, total) == x

\* One entry of Pi_k[i_m] / np.sum(Pi_k[i_m]).
Normalise(x, total) == RDiv(x, total)

\* Lines 277-278: clip every entry, then divide by the total mass.
Stabilise(plan) ==
  LET clipped == [r \in 1 .. Len(plan) |-> [k \in 1 .. Len(plan[r]) |-> Clip(plan[r][k])]]
      total == MatSum(clipped)
  IN [r \in 1 .. Len(plan) |->
        [k \in 1 .. Len(plan[r]) |-> Normalise(clipped[r][k], total)]]

\* np.round(x, 3) for x >= 0: to the nearest multiple of 1/1000, ties to even.
\* Truncation to 3 decimal places.
RoundDown3(x) == Rat((x[1] * 1000) \div x[2], 1000)

Round3(x) ==
  LET q == (x[1] * 1000) \div x[2]
      r == (x[1] * 1000) % x[2]
  IN IF 2 * r < x[2] THEN Rat(q, 1000)
     ELSE IF 2 * r > x[2] THEN Rat(q + 1, 1000)
     ELSE IF q % 2 = 0 THEN Rat(q, 1000) ELSE Rat(q + 1, 1000)

\* The vectors of k naturals that sum to total.
RECURSIVE Compositions(_, _)
Compositions(k, total) ==
  IF k = 0 THEN (IF total = 0 THEN {<<>>} ELSE {})
  ELSE UNION {{<<x>> \o rest : rest \in Compositions(k - 1, total - x)} : x \in 0 .. total}

\* The barycenters a solver may settle on for a node with k children.
Barycenters(k) == {[j \in 1 .. k |-> Rat(c[j], Grid)] : c \in Compositions(k, Grid)}

\* The coupling of q and b in which the two are independent.
ProductPlan(q, b) == [j \in 1 .. Len(q) |-> [i \in 1 .. Len(b) |-> RMul(q[j], b[i])]]

RMin(a, b) == IF RLt(a, b) THEN a ELSE b

RECURSIVE PrefixSum(_, _)
PrefixSum(s, k) == IF k = 0 THEN Zero ELSE RAdd(PrefixSum(s, k - 1), s[k])

\* The monotone (north-west corner) coupling of q and b, a vertex of the
\* transport polytope: the mass the intervals of q[j] and b[i] share.
MonotonePlan(q, b) ==
  [j \in 1 .. Len(q) |->
     [i \in 1 .. Len(b) |->
        LET lo == IF RLt(PrefixSum(q, j - 1), PrefixSum(b, i - 1))
                  THEN PrefixSum(b, i - 1) ELSE PrefixSum(q, j - 1)
            hi == RMin(PrefixSum(q, j), PrefixSum(b, i))
        IN IF RLt(lo, hi) THEN RSub(hi, lo) ELSE Zero]]

\* What the solvers hand back as Pi_k: for each marginal of b a plan of shape
\* (children of n) x (children of m) whose sums over the children of n are
\* the marginal and whose sums over the children of m are the barycenter q.
\* LP_reduction_nt solves a linear program and returns a vertex, the sparse
\* monotone plan; MAM and barycenter_IBP iterate on dense plans.
SolverPlans(solver, q, b) ==
  [i_m \in 1 .. Len(b) |->
     IF solver = "LP" THEN MonotonePlan(q, b[i_m]) ELSE ProductPlan(q, b[i_m])]

\* ------------------------------------------------------------------ state
VARIABLES
  G,            \* the approximate tree; its edge weights are overwritten
  H,            \* the original tree
  method,       \* the solver asked for
  Pi,           \* the transport matrix, Pi[j][i] for j in G and i in H
  T,            \* the horizon the passes run over
  t,            \* the loop variable of the backward pass and of the rebuild
  pc,           \* where reduction_tree (or the caller of division_tasks) is
  nodesG,       \* the nodes of G the rows of D_ij stand for
  nodesH,       \* the nodes of H the columns of D_ij stand for
  D_ij,         \* the distance matrix of the current frontier
  ancestor_n,   \* the parents collected for the next frontier of G
  ancestor_m,   \* the parents collected for the next frontier of H
  list_n,       \* set(ancestor_n) in its iteration order
  list_m,       \* set(ancestor_m) in its iteration order
  outputs,      \* n -> what _loop_subtree_n returned for n in this stage
  work,         \* the position reached in splitting_work[rank]
  nb_tasks,     \* the arguments and the result of the last division_tasks call
  pool_size,
  rearranged,
  nb_n,         \* len(list_n) of the iterations so far
  nb_m,         \* len(list_m) of the iterations so far
  result,       \* the tuple returned, once returned
  plans,        \* history: <<n, m>> -> the plan _loop_subtree_n returned
  calls         \* history: the calls of a barycenter solver, in order

vars ==
  <<G, H, method, Pi, T, t, pc, nodesG, nodesH, D_ij, ancestor_n, ancestor_m,
    list_n, list_m, outputs, work, nb_tasks, pool_size, rearranged, nb_n, nb_m,
    result, plans, calls>>

EmptyFn == [x \in {} |-> 0]

NoResult == [returned |-> FALSE]

\* assert method in ['LP', 'MAM', 'IBP']
Methods == {"LP", "MAM", "IBP"}

\* Pi = np.zeros((2, 2)), the default argument.
DefaultPi == [j \in 0 .. 1 |-> [i \in 0 .. 1 |-> Zero]]

\* np.sum(Pi) == 0 for a matrix without negative entries.
PiIsZero(P) == \A j \in DOMAIN P : \A i \in DOMAIN P[j] : P[j][i] = Zero

\* list(set(S)): the hash order of a set is not the order of insertion;
\* ascending and descending stand for the orders it can be.
SetList(S, order) == IF order = "asc" THEN Asc(S) ELSE Rev(Asc(S))

\* The position of x in the sequence s.
IndexOf(s, x) == CHOOSE k \in 1 .. Len(s) : s[k] = x

Init ==
  /\ G \in {MakeTree(bv, o, "uniform") : bv \in Shapes, o \in Orders}
  /\ H \in {MakeTree(bv, o, p) : bv \in Shapes, o \in Orders, p \in WeightPatterns}
  /\ method \in Methods \cup {"other"}
  /\ Pi = DefaultPi
  /\ T = 0
  /\ t = 0
  /\ pc = "call"
  /\ nodesG = <<>>
  /\ nodesH = <<>>
  /\ D_ij = <<>>
  /\ ancestor_n = <<>>
  /\ ancestor_m = <<>>
  /\ list_n = <<>>
  /\ list_m = <<>>
  /\ outputs = EmptyFn
  /\ work = 0
  /\ nb_tasks = 0
  /\ pool_size = 1
  /\ rearranged = [raised |-> FALSE, parts |-> <<>>]
  /\ nb_n = <<>>
  /\ nb_m = <<>>
  /\ result = NoResult
  /\ plans = EmptyFn
  /\ calls = <<>>

\* --------------------------------------------------------- reduction_tree
\* Line 41.
AssertMethod ==
  /\ pc = "call"
  /\ pc' = IF method \in Methods THEN "seed" ELSE "AssertionError"
  /\ UNCHANGED <<G, H, method, Pi, T, t, nodesG, nodesH, D_ij, ancestor_n,
                 ancestor_m, list_n, list_m, outputs, work, nb_tasks, pool_size,
                 rearranged, nb_n, nb_m, result, plans, calls>>

\* Lines 64-84: the loop over t of the seed, with the frontiers as sets.  Each
\* entry Pi[j, i] is written for the one pair (n, m) of the parents of j and
\* i; the parents are collected inside both loops, so that none is collected
\* when either frontier is empty.
RECURSIVE SeedLoop(_, _, _, _, _, _)
SeedLoop(g, h, t0, frontier_n, frontier_m, P) ==
  IF t0 < 0 THEN P
  ELSE LET P2 == [j \in DOMAIN P |-> [i \in DOMAIN P[j] |->
                    IF g.pred[j] \in frontier_n /\ h.pred[i] \in frontier_m
                    THEN RDiv(h.weight[i], <<Len(g.succ[g.pred[j]]), 1>>)
                    ELSE P[j][i]]]
           collect == t0 > 0 /\ frontier_n # {} /\ frontier_m # {}
       IN SeedLoop(g, h, t0 - 1,
                   IF collect THEN {g.pred[n] : n \in frontier_n} ELSE {},
                   IF collect THEN {h.pred[m] : m \in frontier_m} ELSE {},
                   P2)

\* Lines 54-84.
SeedPi ==
  /\ pc = "seed"
  /\ LET N1 == Len(G.nodes)
         N2 == Len(H.nodes)
         T0 == MaxStage(G)
         fresh == [j \in 0 .. N1 - 1 |-> [i \in 0 .. N2 - 1 |->
                     IF j = 0 /\ i = 0 THEN One ELSE Zero]]
     IN IF PiIsZero(Pi)
        THEN /\ Pi' = SeedLoop(G, H, T0 - 1, Range(NodesAtStage(G, T0 - 1)),
                               Range(NodesAtStage(H, T0 - 1)), fresh)
             /\ T' = T0
        ELSE UNCHANGED <<Pi, T>>
  /\ pc' = "dist"
  /\ UNCHANGED <<G, H, method, t, nodesG, nodesH, D_ij, ancestor_n,
                 ancestor_m, list_n, list_m, outputs, work, nb_tasks, pool_size,
                 rearranged, nb_n, nb_m, result, plans, calls>>

\* Whether line 101 can subtract every pair of value vectors.
VectorsBroadcast ==
  \A i \in 1 .. Len(find_process_data(G).w) : \A j \in 1 .. Len(find_process_data(H).w) :
    Broadcastable(Len(find_process_data(G).w[i]), Len(find_process_data(H).w[j]))

\* Lines 90-112, up to the first iteration of the backward pass.
SeedDistance ==
  /\ pc = "dist"
  /\ VectorsBroadcast
  /\ LET dG == find_process_data(G)
         dH == find_process_data(H)
     IN /\ T' = dG.T
        /\ nodesG' = [i \in 1 .. Len(dG.a) |-> dG.a[i][Len(dG.a[i])]]
        /\ nodesH' = [j \in 1 .. Len(dH.a) |-> dH.a[j][Len(dH.a[j])]]
        /\ D_ij' = [i \in 1 .. Len(dG.a) |-> [j \in 1 .. Len(dH.a) |->
                      [g |-> dG.a[i][Len(dG.a[i])], h |-> dH.a[j][Len(dH.a[j])],
                       leaf |-> SquaredDistance(dG.w[i], dH.w[j]),
                       rows |-> <<>>, cols |-> <<>>]]]
        /\ ancestor_m' = NodesAtStage(H, dG.T - 1)
        /\ ancestor_n' = NodesAtStage(G, dG.T - 1)
        /\ t' = dG.T - 1
        /\ pc' = IF dG.T - 1 >= 0 THEN "stage" ELSE "rebuild"
  /\ nb_n' = <<>>
  /\ nb_m' = <<>>
  /\ UNCHANGED <<G, H, method, Pi, list_n, list_m, outputs, work, nb_tasks,
                 pool_size, rearranged, result, plans, calls>>

\* Line 101 on value vectors numpy cannot broadcast together: ValueError.
SeedDistanceRaises ==
  /\ pc = "dist"
  /\ ~VectorsBroadcast
  /\ T' = find_process_data(G).T
  /\ pc' = "ValueError"
  /\ UNCHANGED <<G, H, method, Pi, t, nodesG, nodesH, D_ij, ancestor_n,
                 ancestor_m, list_n, list_m, outputs, work, nb_tasks, pool_size,
                 rearranged, nb_n, nb_m, result, plans, calls>>

\* Lines 113-120: the frontiers of the iteration and the split of the work.
StageBegin ==
  /\ pc = "stage"
  /\ \E order \in Orders :
       /\ list_n' = SetList(Range(ancestor_n), order)
       /\ list_m' = SetList(Range(ancestor_m), order)
  /\ nb_tasks' = Cardinality(Range(ancestor_n))
  /\ rearranged' = division_tasks(Cardinality(Range(ancestor_n)), pool_size)
  /\ outputs' = EmptyFn
  /\ work' = 1
  /\ pc' = IF ancestor_n = <<>> THEN "merge" ELSE "work"
  /\ UNCHANGED <<G, H, method, Pi, T, t, nodesG, nodesH, D_ij, ancestor_n,
                 ancestor_m, pool_size, nb_n, nb_m, result, plans, calls>>

\* -------------------------------------------------------- _loop_subtree_n
\* [j for j in range(len(nodes)) if nodes[j] in children], counted from 1.
ChildrenIndices(nodes, children) ==
  Filter([k \in 1 .. Len(nodes) |-> k], {k \in 1 .. Len(nodes) : nodes[k] \in Range(children)})

\* Line 207: the weights of the children of m, in successor order.
Marginal(m) == [k \in 1 .. Len(H.succ[m]) |-> H.weight[H.succ[m][k]]]

\* An entry of D_ij is kept as the sum it stands for, not as its value (the
\* values outgrow machine integers): the distance of the nodes g and h is the
\* number leaf plus the sum over r, k of the plan of (g, h) at [r][k] times
\* the entry of the previous D_ij for the nodes rows[r] and cols[k].

\* Lines 197 and 211: the nodes the rows D_ij[children_ni, :] stand for.
LocalRows(n) ==
  LET children_ni == ChildrenIndices(nodesG, G.succ[n])
  IN [r \in 1 .. Len(children_ni) |-> nodesG[children_ni[r]]]

\* Lines 204 and 212: the nodes the columns dist[:, children_mj] stand for.
LocalCols(m) ==
  LET children_mj == ChildrenIndices(nodesH, H.succ[m])
  IN [k \in 1 .. Len(children_mj) |-> nodesH[children_mj[k]]]

\* Line 215: dist * Pi[n, m], as the product it is.
Cost(n, m) == [rows |-> LocalRows(n), cols |-> LocalCols(m), factor |-> Pi[n][m]]

\* Line 281: np.sum(np.multiply(Pi_k[i_m], dist_matrices[i_m])).
LocalDistance(n, m) ==
  [g |-> n, h |-> m, leaf |-> Zero, rows |-> LocalRows(n), cols |-> LocalCols(m)]

\* The nodes themselves in place of their parents.
CollectSelf(tree, nodes) == nodes

\* Lines 217-223: the parents of the nodes, collected unless t = 0.
CollectParents(tree, nodes) ==
  IF t > 0 THEN [k \in 1 .. Len(nodes) |-> tree.pred[nodes[k]]] ELSE <<>>

\* Line 227.
IsTrivial(children_n) == Len(children_n) = 1

\* Line 231.
NeedsSolver(children_n) == Len(children_n) > 1

\* Line 230: every marginal as a plan of one row.
Shortcut(b) == [i_m \in 1 .. Len(b) |-> <<b[i_m]>>]

\* A solver input outside the solvers' contract: no marginal, or an empty one.
Degenerate(b) == b = <<>> \/ \E i_m \in 1 .. Len(b) : b[i_m] = <<>>

\* Lines 253 and 266: np.concatenate of an empty list raises.
ConcatenateRaises(b) == b = <<>> /\ method \in {"LP", "IBP"}

\* Lines 275-284: what _loop_subtree_n returns for n, given the plans Pi_k.
SubtreeOutput(n, Pi_k) ==
  LET stab == [i_m \in 1 .. Len(list_m) |-> Stabilise(Pi_k[i_m])]
  IN [Pi_k |-> stab,
      D_ij_t |-> [i_m \in 1 .. Len(list_m) |-> LocalDistance(n, list_m[i_m])],
      ancestor_m |-> CollectParents(H, list_m),
      ancestor_n |-> CollectParents(G, <<n>>)]

\* outputs[n] = _loop_subtree_n(..., n), and the next item of the work.
Store(n, out) ==
  /\ outputs' = [x \in DOMAIN outputs \cup {n} |-> IF x = n THEN out ELSE outputs[x]]
  /\ plans' = [pr \in DOMAIN plans \cup {<<n, list_m[i_m]>> : i_m \in 1 .. Len(list_m)} |->
                 IF pr[1] = n THEN out.Pi_k[IndexOf(list_m, pr[2])] ELSE plans[pr]]
  /\ work' = work + 1
  /\ pc' = IF work = Len(rearranged.parts[1]) THEN "merge" ELSE "work"

\* Lines 121-124 and 190-284: one node n of the frontier of G.
LoopSubtree ==
  /\ pc = "work"
  /\ LET n == list_n[rearranged.parts[1][work] + 1]
         b == [i_m \in 1 .. Len(list_m) |-> Marginal(list_m[i_m])]
         c == [i_m \in 1 .. Len(list_m) |-> Cost(n, list_m[i_m])]
     IN \/ /\ IsTrivial(G.succ[n])
           /\ Store(n, SubtreeOutput(n, Shortcut(b)))
           /\ calls' = calls
        \/ /\ ~IsTrivial(G.succ[n])
           /\ NeedsSolver(G.succ[n])
           /\ ~ConcatenateRaises(b)
           /\ \E q \in Barycenters(Len(G.succ[n])) :
                Store(n, SubtreeOutput(n, SolverPlans(method, q, b)))
           /\ calls' = Append(calls, [node |-> n, solver |-> method, b |-> b, M_dist |-> c])
  /\ UNCHANGED <<G, H, method, Pi, T, t, nodesG, nodesH, D_ij, ancestor_n,
                 ancestor_m, list_n, list_m, nb_tasks, pool_size, rearranged,
                 nb_n, nb_m, result>>

\* A solver handed a degenerate input may raise instead of returning.
LoopSubtreeRaises ==
  /\ pc = "work"
  /\ LET n == list_n[rearranged.parts[1][work] + 1]
         b == [i_m \in 1 .. Len(list_m) |-> Marginal(list_m[i_m])]
     IN /\ ~IsTrivial(G.succ[n])
        /\ NeedsSolver(G.succ[n])
        /\ Degenerate(b)
  /\ pc' = "SolverError"
  /\ UNCHANGED <<G, H, method, Pi, T, t, nodesG, nodesH, D_ij, ancestor_n,
                 ancestor_m, list_n, list_m, outputs, work, nb_tasks, pool_size,
                 rearranged, nb_n, nb_m, result, plans, calls>>

\* ------------------------------------------------- the stage's merge step
RECURSIVE Flatten(_)
Flatten(ss) == IF ss = <<>> THEN <<>> ELSE ss[1] \o Flatten(Tail(ss))

\* Lines 145-151: Pi[j, children_m] = Pi_k[n][i_m][j_c, :] for every n of
\* list_n, m of list_m and child j of n.
WritePlans(P) ==
  [j \in DOMAIN P |-> [i \in DOMAIN P[j] |->
     IF G.pred[j] \in Range(list_n) /\ H.pred[i] \in Range(list_m)
     THEN outputs[G.pred[j]].Pi_k[IndexOf(list_m, H.pred[i])]
            [IndexOf(G.succ[G.pred[j]], j)][IndexOf(H.succ[H.pred[i]], i)]
     ELSE P[j][i]]]

\* Line 157: np.sum(Pi[j, children_m]) for the first m of list_m.
FirstCandidateSum(P, j) ==
  SeqSum([k \in 1 .. Len(H.succ[list_m[1]]) |-> P[j][H.succ[list_m[1]][k]]])

\* Lines 156-159: the weight of the edge into j, for the children j of the
\* nodes of list_n, when list_m has a first element.
WriteWeights(P) ==
  [j \in DOMAIN G.weight |->
     IF G.pred[j] \in Range(list_n) /\ list_m # <<>>
     THEN Round3(FirstCandidateSum(P, j))
     ELSE G.weight[j]]

\* Lines 134-165.
StageMerge ==
  /\ pc = "merge"
  /\ ancestor_n' = Flatten([i_n \in 1 .. Len(list_n) |-> outputs[list_n[i_n]].ancestor_n])
  /\ ancestor_m' = IF list_n = <<>> THEN ancestor_m ELSE outputs[list_n[1]].ancestor_m
  /\ Pi' = WritePlans(Pi)
  /\ G' = [G EXCEPT !.weight = WriteWeights(Pi')]
  /\ nodesG' = list_n
  /\ nodesH' = list_m
  /\ D_ij' = [i_n \in 1 .. Len(list_n) |-> outputs[list_n[i_n]].D_ij_t]
  /\ nb_m' = Append(nb_m, Len(list_m))
  /\ nb_n' = Append(nb_n, Len(list_n))
  /\ t' = t - 1
  /\ pc' = IF t - 1 >= 0 THEN "stage" ELSE "rebuild"
  /\ UNCHANGED <<H, method, T, list_n, list_m, outputs, work, nb_tasks,
                 pool_size, rearranged, result, plans, calls>>

\* ------------------------------------------------------ rebuild and return
\* A rebuild that leaves the local couplings unscaled.
RebuildFactorNone(P, j1, i1) == One

\* Line 179: the factor Pi[n, m] of the predecessors n of j1 and m of i1.
RebuildFactor(P, j1, i1) == P[G.pred[j1]][H.pred[i1]]

\* Lines 172-181: the iterations t0, ..., T of the rebuild; list_i1 and
\* list_j1 hold the nodes of stage t0.
RECURSIVE RebuildLoop(_, _)
RebuildLoop(P, t0) ==
  IF t0 > T THEN P
  ELSE RebuildLoop([j1 \in DOMAIN P |-> [i1 \in DOMAIN P[j1] |->
                      IF G.stage[j1] = t0 /\ H.stage[i1] = t0
                      THEN RMul(P[j1][i1], RebuildFactor(P, j1, i1))
                      ELSE P[j1][i1]]],
                   t0 + 1)

\* Whether D_ij[0, 0] exists.
HasCorner(D) == D # <<>> /\ D[1] # <<>>

\* Lines 167-187: the rebuild and the return.
Return ==
  /\ pc = "rebuild"
  /\ HasCorner(D_ij)
  /\ Pi' = RebuildLoop([Pi EXCEPT ![0][0] = One], 1)
  /\ t' = IF T >= 1 THEN T ELSE t
  /\ result' = [returned |-> TRUE, G |-> G, distance |-> D_ij[1][1], Pi |-> Pi',
                nb_n |-> Rev(nb_n), nb_m |-> Rev(nb_m)]
  /\ pc' = "done"
  /\ UNCHANGED <<G, H, method, T, nodesG, nodesH, D_ij, ancestor_n, ancestor_m,
                 list_n, list_m, outputs, work, nb_tasks, pool_size, rearranged,
                 nb_n, nb_m, plans, calls>>

\* Lines 167-187 on a distance matrix without a first entry: the rebuild,
\* then IndexError at D_ij[0, 0].
ReturnRaises ==
  /\ pc = "rebuild"
  /\ ~HasCorner(D_ij)
  /\ Pi' = RebuildLoop([Pi EXCEPT ![0][0] = One], 1)
  /\ t' = IF T >= 1 THEN T ELSE t
  /\ pc' = "IndexError"
  /\ UNCHANGED <<G, H, method, T, nodesG, nodesH, D_ij, ancestor_n, ancestor_m,
                 list_n, list_m, outputs, work, nb_tasks, pool_size, rearranged,
                 nb_n, nb_m, result, plans, calls>>

Next ==
  \/ AssertMethod
  \/ SeedPi
  \/ SeedDistance
  \/ SeedDistanceRaises
  \/ StageBegin
  \/ LoopSubtree
  \/ LoopSubtreeRaises
  \/ StageMerge
  \/ Return
  \/ ReturnRaises

Spec == Init /\ [][Next]_vars

\* ------------------------------------------- division_tasks called alone
InitDiv ==
  /\ nb_tasks \in 1 .. MaxTasks
  /\ pool_size \in 1 .. MaxPool
  /\ rearranged = [raised |-> FALSE, parts |-> <<>>]
  /\ pc = "division_call"
  /\ G = MakeTree(<<>>, "asc", "uniform")
  /\ H = MakeTree(<<>>, "asc", "uniform")
  /\ method = "LP"
  /\ Pi = DefaultPi
  /\ T = 0
  /\ t = 0
  /\ nodesG = <<>>
  /\ nodesH = <<>>
  /\ D_ij = <<>>
  /\ ancestor_n = <<>>
  /\ ancestor_m = <<>>
  /\ list_n = <<>>
  /\ list_m = <<>>
  /\ outputs = EmptyFn
  /\ work = 0
  /\ nb_n = <<>>
  /\ nb_m = <<>>
  /\ result = NoResult
  /\ plans = EmptyFn
  /\ calls = <<>>

\* Lines 288-313.
CallDivisionTasks ==
  /\ pc = "division_call"
  /\ rearranged' = division_tasks(nb_tasks, pool_size)
  /\ pc' = "division_done"
  /\ UNCHANGED <<G, H, method, Pi, T, t, nodesG, nodesH, D_ij, ancestor_n,
                 ancestor_m, list_n, list_m, outputs, work, nb_tasks, pool_size,
                 nb_n, nb_m, result, plans, calls>>

NextDiv == CallDivisionTasks

SpecDiv == InitDiv /\ [][NextDiv]_vars

\* ------------------------------------------------------------------ claims
\* G and H have the same horizon (all leaves of a tree are at its horizon).
SameHorizon == MaxStage(G) = MaxStage(H)

GNodes == Range(G.nodes)

HNodes == Range(H.nodes)

\* The groups of the last division_tasks call, one after the other.
Concatenated == Flatten(rearranged.parts)

\* C1: for 1 <= P <= N, division_tasks(N, P) returns exactly P groups whose
\* concatenation holds every index of [0, N) exactly once and nothing else.
C1_PartitionCoverage ==
  (pc = "division_done" /\ pool_size <= nb_tasks) =>
    /\ ~rearranged.raised
    /\ Len(rearranged.parts) = pool_size
    /\ Len(Concatenated) = nb_tasks
    /\ \A x \in 0 .. nb_tasks - 1 :
         Cardinality({k \in 1 .. Len(Concatenated) : Concatenated[k] = x}) = 1

\* A call that P does not divide, with several workers, has returned.
C1_Witness ==
  /\ pc = "division_done"
  /\ 1 < pool_size
  /\ pool_size < nb_tasks
  /\ nb_tasks % pool_size # 0
  /\ Len(rearranged.parts) = pool_size

GroupSize(g) == Len(rearranged.parts[g])

\* C8: for N >= 1 and P >= 1 the P groups are of equal size when P divides N;
\* otherwise two sizes differ by at most one and no group is larger than an
\* earlier one (the groups with an extra task come first).
C8_BalancedGroups ==
  pc = "division_done" =>
    /\ ~rearranged.raised
    /\ Len(rearranged.parts) = pool_size
    /\ nb_tasks % pool_size = 0 =>
         \A g \in 1 .. pool_size : GroupSize(g) = nb_tasks \div pool_size
    /\ nb_tasks % pool_size # 0 =>
         /\ \A g, h \in 1 .. pool_size : GroupSize(g) - GroupSize(h) <= 1
         /\ \A g, h \in 1 .. pool_size : g < h => GroupSize(g) >= GroupSize(h)
         /\ \E g \in 1 .. pool_size : GroupSize(g) = GroupSize(pool_size) + 1

\* A call with more workers than tasks has returned groups of two sizes.
C8_Witness ==
  /\ pc = "division_done"
  /\ pool_size > nb_tasks
  /\ GroupSize(1) = 1
  /\ GroupSize(pool_size) = 0

\* C2: no entry of a plan _loop_subtree_n returns is below epsilon.
C2_FloorInvariant ==
  SameHorizon =>
    \A pr \in DOMAIN plans :
      \A r \in 1 .. Len(plans[pr]) : \A k \in 1 .. Len(plans[pr][r]) :
        ~RLt(plans[pr][r][k], epsilon)

\* The entry the backward pass wrote at [j, i]: the entry of the plan of the
\* parents of j and i at the places of j and i among their successors.
LocalCoupling(j, i) ==
  plans[<<G.pred[j], H.pred[i]>>][IndexOf(G.succ[G.pred[j]], j)][IndexOf(H.succ[H.pred[i]], i)]

\* The product of the local couplings along the chains from the root to j, i.
RECURSIVE ChainProduct(_, _)
ChainProduct(j, i) ==
  IF G.pred[j] = -1 THEN One
  ELSE RMul(ChainProduct(G.pred[j], H.pred[i]), LocalCoupling(j, i))

\* C3: when reduction_tree returns, Pi[0, 0] = 1 and for j in G and i in H of
\* one stage t >= 1, Pi[j, i] is the product over the levels 1..t of the
\* entries the backward pass wrote along the chains of j and i.
C3_ChainFactorization ==
  pc = "done" =>
    /\ Pi[0][0] = One
    /\ \A j \in GNodes : \A i \in HNodes :
         (G.stage[j] = H.stage[i] /\ G.stage[j] >= 1) => Pi[j][i] = ChainProduct(j, i)

\* A run over two stages has returned, and an entry of the last stage is not
\* the entry the backward pass wrote: the rebuild has multiplied it.
C3_Witness ==
  /\ pc = "done"
  /\ T = 2
  /\ SameHorizon
  /\ \E j \in GNodes : \E i \in HNodes :
       G.stage[j] = 2 /\ H.stage[i] = 2 /\ Pi[j][i] # LocalCoupling(j, i)

\* The sum of the weights of the edges from n to its children.
ChildWeightSum(n) == SeqSum([k \in 1 .. Len(G.succ[n]) |-> G.weight[G.succ[n][k]]])

\* C4 as stated: after reduction_tree returns, the weights of the edges from
\* every non-leaf node of G to its children sum to 1.
C4_WeightsSumToOne ==
  (pc = "done" /\ SameHorizon) =>
    \A n \in GNodes : G.succ[n] # <<>> => ChildWeightSum(n) = One

\* C4 as amended: for trees of one horizon, after reduction_tree returns, the
\* weights of the edges from a non-leaf node n of G to its k children sum to
\* 1 within k * 0.0005, each weight being the sum of a row of a plan of n
\* rounded to 3 decimal places.
C4_WeightsSumToOneRounded ==
  (pc = "done" /\ SameHorizon) =>
    \A n \in GNodes : G.succ[n] # <<>> =>
      /\ RLe(RAbs(RSub(ChildWeightSum(n), One)), Rat(Len(G.succ[n]), 2000))
      /\ \A k \in 1 .. Len(G.succ[n]) :
           /\ 1000 % G.weight[G.succ[n][k]][2] = 0
           /\ \E m \in HNodes :
                /\ <<n, m>> \in DOMAIN plans
                /\ RLe(RAbs(RSub(G.weight[G.succ[n][k]], SeqSum(plans[<<n, m>>][k]))),
                       Rat(1, 2000))

\* A run on trees of one horizon has returned weights that do not sum to 1.
C4_Witness ==
  /\ pc = "done"
  /\ SameHorizon
  /\ \E n \in GNodes : G.succ[n] # <<>> /\ ChildWeightSum(n) # One

\* C5: a call with trees of different horizons is rejected: no result is
\* returned and the weights of G stay as they were passed.
C5_MismatchRejected ==
  ~SameHorizon =>
    /\ pc # "done"
    /\ ~result.returned
    /\ \A v \in DOMAIN G.weight : G.weight[v] = Rat(1, Len(G.succ[G.pred[v]]))

\* C6 as stated: for a node n with exactly one child, the plan returned for
\* every candidate m is the marginal of m as a single row.
C6_ShortcutIsMarginal ==
  SameHorizon =>
    \A pr \in DOMAIN plans :
      Len(G.succ[pr[1]]) = 1 => plans[pr] = <<Marginal(pr[2])>>

\* The marginal of m with every entry raised to epsilon, divided by its sum.
FlooredMarginal(m) ==
  LET b == Marginal(m)
      floored == [k \in 1 .. Len(b) |-> IF RLt(b[k], epsilon) THEN epsilon ELSE b[k]]
  IN [k \in 1 .. Len(b) |-> RDiv(floored[k], SeqSum(floored))]

\* C6 as amended: for a node n with exactly one child, the plan returned for
\* every candidate m is the single row of the marginal of m with its entries
\* raised to epsilon and divided by their sum, and no solver is called for n.
C6_ShortcutIsFlooredMarginal ==
  /\ \A pr \in DOMAIN plans :
       Len(G.succ[pr[1]]) = 1 => plans[pr] = <<FlooredMarginal(pr[2])>>
  /\ \A c \in 1 .. Len(calls) : Len(G.succ[calls[c].node]) # 1

\* A node with one child was handled under MAM and under LP, for a candidate
\* whose marginal has an entry below epsilon.
C6_Witness ==
  /\ method \in {"MAM", "LP"}
  /\ SameHorizon
  /\ \E pr \in DOMAIN plans :
       /\ Len(G.succ[pr[1]]) = 1
       /\ \E k \in 1 .. Len(Marginal(pr[2])) : RLt(Marginal(pr[2])[k], epsilon)

\* The sum of Pi over the children of n and the children of m.
BlockSum(n, m) ==
  MatSum([r \in 1 .. Len(G.succ[n]) |->
            [k \in 1 .. Len(H.succ[m]) |-> Pi[G.succ[n][r]][H.succ[m][k]]]])

\* C7: in the matrix returned, for non-leaf n in G and m in H of one stage,
\* Pi summed over the children of n and of m is Pi[n, m].
C7_BlockMass ==
  pc = "done" =>
    \A n \in GNodes : \A m \in HNodes :
      (G.stage[n] = H.stage[m] /\ G.succ[n] # <<>> /\ H.succ[m] # <<>>) =>
        BlockSum(n, m) = Pi[n][m]

\* A run has returned with a pair (n, m) below the roots, n with several
\* children, whose coupling mass is strictly between 0 and 1.
C7_Witness ==
  /\ pc = "done"
  /\ \E n \in GNodes : \E m \in HNodes :
       /\ G.stage[n] = 1
       /\ H.stage[m] = 1
       /\ Len(G.succ[n]) > 1
       /\ H.succ[m] # <<>>
       /\ RLt(Zero, Pi[n][m])
       /\ RLt(Pi[n][m], One)

StageSet(tree, s) == {v \in Range(tree.nodes) : tree.stage[v] = s}

\* C9: over trees whose leaves are all at stage T, the backward pass runs
\* t = T-1, ..., 0 in that order; at iteration t list_n and list_m are the
\* nodes of stage t of G and of H, each once, and D_ij has one row per node
\* of stage t+1 of G and one column per node of stage t+1 of H; after
\* iteration 0 D_ij is 1 x 1.
C9_BackwardFrontiers ==
  SameHorizon =>
    /\ pc \in {"work", "merge"} =>
         /\ t = T - 1 - Len(nb_n)
         /\ 0 <= t
         /\ Range(list_n) = StageSet(G, t)
         /\ Len(list_n) = Cardinality(StageSet(G, t))
         /\ Range(list_m) = StageSet(H, t)
         /\ Len(list_m) = Cardinality(StageSet(H, t))
         /\ Range(nodesG) = StageSet(G, t + 1)
         /\ Len(D_ij) = Cardinality(StageSet(G, t + 1))
         /\ Range(nodesH) = StageSet(H, t + 1)
         /\ \A r \in 1 .. Len(D_ij) :
              /\ Len(D_ij[r]) = Cardinality(StageSet(H, t + 1))
              /\ \A k \in 1 .. Len(D_ij[r]) :
                   D_ij[r][k].g = nodesG[r] /\ D_ij[r][k].h = nodesH[k]
    /\ pc \in {"rebuild", "done"} =>
         /\ Len(nb_n) = T
         /\ Len(D_ij) = 1
         /\ Len(D_ij[1]) = 1

\* The second iteration of a backward pass over two stages is under way.
C9_Witness ==
  /\ SameHorizon
  /\ pc = "work"
  /\ T = 2
  /\ t = 0
  /\ Len(nb_n) = 1
  /\ Len(D_ij) > 1

\* C10: whatever the orders of the frontier lists and of the successors, row
\* r of the local cost matrix of (n, m) is for the child of n that row r of
\* the plan is written to (G.successors(n)[r]), and column k is for the child
\* of m that entry k of the marginal and column k of the plan are for
\* (H.successors(m)[k]). Stated for the iterations after the first, where
\* nodesG and nodesH are list(list_n) and list(list_m) of the iteration
\* before, and for the case that these lists are in increasing order.
C10_IndicesAgree ==
  (/\ SameHorizon
   /\ pc = "work"
   /\ t < T - 1
   /\ nodesG = Asc(Range(nodesG))
   /\ nodesH = Asc(Range(nodesH))) =>
    /\ \A r \in 1 .. Len(list_n) : LocalRows(list_n[r]) = G.succ[list_n[r]]
    /\ \A k \in 1 .. Len(list_m) : LocalCols(list_m[k]) = H.succ[list_m[k]]

====
